---- MODULE Spec2Model ----
(***************************************************************************)
(* The note list controller of black-notebook-todo (src/src/App.jsx): a    *)
(* React component holding todos, newTodo and loading, and four async      *)
(* handlers, each of which sends one request to the remote table, suspends *)
(* at its await and, when the response arrives, patches the local state.   *)
(*                                                                         *)
(* A handler is a closure of the render in which it was created, so the    *)
(* `todos` and `newTodo` it reads after the await are the values of the    *)
(* render that was on screen when the handler was triggered.  A call in    *)
(* flight therefore carries that snapshot (field snap).                    *)
(*                                                                         *)
(* The other revision of the component (src/unnamed/part_001) differs in   *)
(* one place: its fetchTodos lives inside the effect and applies its       *)
(* response only if the effect's cleanup has not set `ignore`.  Both       *)
(* revisions of that continuation are actions of the model; a run takes    *)
(* one of them, once, for its single list request.                         *)
(***************************************************************************)
EXTENDS Integers, Sequences, FiniteSets, TLC

\* ------------------------------------------------------------------ bounds
MaxDraftLen == 1     \* longest text typed into the input
MaxNotes    == 3     \* rows the remote table ever holds (initial + inserted)
MaxTime     == 4     \* created_at values the remote store can assign
MaxCalls    == 2     \* requests in flight at the same time
MaxOps      == 3     \* requests the user's actions send in one run

Chars      == {" ", "a"}
Whitespace == {" "}

\* Every text of at most MaxDraftLen characters.
Drafts == UNION {[1..n -> Chars] : n \in 0..MaxDraftLen}

VARIABLES
    todos,      \* useState([]): the local list of records
    newTodo,    \* useState(''): the text in the input
    loading,    \* useState(true)
    calls,      \* the requests in flight, in the order they were sent
    remote,     \* the rows of the remote table `todolist`
    nextId,     \* the id the remote table gives to the next inserted row
    ignore,     \* the component was unmounted (part_001: let ignore, set by the cleanup)
    last,       \* history: the step just taken and the local state before it
    ops,        \* history: the number of requests sent by addTodo, toggleTodo and deleteTodo
    requests,   \* history: the number of requests that reached the remote side
    clean       \* history: so far no operation overlapped another, the list request did not
                \* fail, no executed request was reported failed, created_at only grew

vars == <<todos, newTodo, loading, calls, remote, nextId, ignore, last, ops, requests, clean>>

\* ------------------------------------------------------------ pure helpers

RECURSIVE TrimStart(_)
TrimStart(s) ==
    IF s = <<>> THEN s
    ELSE IF Head(s) \in Whitespace THEN TrimStart(Tail(s)) ELSE s

RECURSIVE TrimEnd(_)
TrimEnd(s) ==
    IF s = <<>> THEN s
    ELSE IF s[Len(s)] \in Whitespace THEN TrimEnd(SubSeq(s, 1, Len(s) - 1)) ELSE s

\* String.prototype.trim
Trim(s) == TrimEnd(TrimStart(s))

\* Variant of IsBlank that forgets to trim.
IsBlank_NoTrim(s) == s = <<>>
\* !newTodo.trim()
IsBlank(s) == Trim(s) = <<>>

Ids(list) == {list[i].id : i \in DOMAIN list}

\* .order('created_at', { ascending: false }) over the rows S
RECURSIVE ListOrder(_)
ListOrder(S) ==
    IF S = {} THEN <<>>
    ELSE LET newest == CHOOSE r \in S : \A q \in S : q.created_at <= r.created_at
         IN  <<newest>> \o ListOrder(S \ {newest})

\* Variant of Prepend that re-sorts by created_at.
Prepend_Sorted(rec, list) == ListOrder({rec} \cup {list[i] : i \in DOMAIN list})
\* [data[0], ...todos]
Prepend(rec, list) == <<rec>> \o list

\* Variants of ToggleIn: the flag is written unflipped; every row is flipped.
ToggleIn_Same(list, id, completed) ==
    [i \in DOMAIN list |->
        IF list[i].id = id THEN [list[i] EXCEPT !.completed = completed] ELSE list[i]]
ToggleIn_All(list, id, completed) ==
    [i \in DOMAIN list |-> [list[i] EXCEPT !.completed = ~completed]]
\* todos.map(todo => todo.id === id ? { ...todo, completed: !completed } : todo)
ToggleIn(list, id, completed) ==
    [i \in DOMAIN list |->
        IF list[i].id = id THEN [list[i] EXCEPT !.completed = ~completed]
                           ELSE list[i]]

\* Variant of Without that drops the first row, whatever its id.
Without_Head(list, id) == IF list = <<>> THEN list ELSE Tail(list)
\* todos.filter(todo => todo.id !== id)
Without(list, id) == SelectSeq(list, LAMBDA t : t.id # id)

RemoveAt(s, k) == SubSeq(s, 1, k - 1) \o SubSeq(s, k + 1, Len(s))

\* ------------------------------------------------------------------- state

Row(id, text, completed, created_at) ==
    [id |-> id, text |-> text, completed |-> completed, created_at |-> created_at]

\* Tables the store can hold when the page is opened.
InitialTables ==
    { {},
      {Row(1, <<"a">>, FALSE, 2)},
      {Row(1, <<"a">>, FALSE, 2), Row(2, <<"a">>, TRUE, 3)} }

Call(op, id, completed, text, snap) ==
    [op |-> op, id |-> id, completed |-> completed, text |-> text, snap |-> snap,
     phase |-> "sent", data |-> <<>>, others |-> {}]

NoCall == Call("none", 0, FALSE, <<>>, <<>>)

\* The step `act`, the call it sent or completed, and the local state before it.
Step(act, call) ==
    [act |-> act, call |-> call, todos |-> todos, newTodo |-> newTodo, loading |-> loading]

\* The component is mounted: state is the useState defaults and the effect
\* has sent the list request.
Init ==
    /\ todos = <<>>
    /\ newTodo = <<>>
    /\ loading = TRUE
    /\ calls = <<Call("select", 0, FALSE, <<>>, <<>>)>>
    /\ remote \in InitialTables
    /\ nextId = Cardinality(remote) + 1
    /\ ignore = FALSE
    /\ last = Step("mount", NoCall)
    /\ ops = 0
    /\ requests = 0
    /\ clean = TRUE

\* --------------------------------------------------- triggers (user events)
\* The form and the list exist while the component is mounted.

Busy == Len(calls) >= MaxCalls \/ ops >= MaxOps

Send(call) == calls' = Append(calls, call) /\ ops' = ops + 1

\* onChange={(e) => setNewTodo(e.target.value)}
SetNewTodo(v) ==
    /\ ~ignore
    /\ v # newTodo
    /\ newTodo' = v
    /\ last' = Step("setNewTodo", NoCall)
    /\ UNCHANGED <<todos, loading, calls, remote, nextId, clean, ops, ignore, requests>>

PendingInserts == Cardinality({k \in DOMAIN calls : calls[k].op = "insert" /\ calls[k].phase = "sent"})

\* Variant of AddTodo that shows the loading indicator while it inserts.
AddTodo_Loading ==
    /\ ~ignore
    /\ ~IsBlank(newTodo)
    /\ ~Busy
    /\ nextId + PendingInserts <= MaxNotes
    /\ LET c == Call("insert", 0, FALSE, newTodo, todos)
       IN  /\ Send(c)
           /\ last' = Step("addTodo", c)
    /\ loading' = TRUE
    /\ clean' = (clean /\ calls = <<>>)
    /\ UNCHANGED <<todos, newTodo, remote, nextId, ignore, requests>>

\* Variant of AddTodo that sends the trimmed text.
AddTodo_Trimmed ==
    \/ /\ ~ignore
       /\ IsBlank(newTodo)
       /\ last' = Step("addTodo", NoCall)
       /\ UNCHANGED <<todos, newTodo, loading, calls, remote, nextId, clean, ops, ignore, requests>>
    \/ /\ ~ignore
       /\ ~IsBlank(newTodo)
       /\ ~Busy
       /\ nextId + PendingInserts <= MaxNotes
       /\ LET c == Call("insert", 0, FALSE, Trim(newTodo), todos)
          IN  /\ Send(c)
              /\ last' = Step("addTodo", c)
       /\ clean' = (clean /\ calls = <<>>)
       /\ UNCHANGED <<todos, newTodo, loading, remote, nextId, ignore, requests>>

\* addTodo up to its await: the form is submitted
AddTodo ==
    \/ /\ ~ignore
       /\ IsBlank(newTodo)
       /\ last' = Step("addTodo", NoCall)
       /\ UNCHANGED <<todos, newTodo, loading, calls, remote, nextId, clean, ops, ignore, requests>>
    \/ /\ ~ignore
       /\ ~IsBlank(newTodo)
       /\ ~Busy
       /\ nextId + PendingInserts <= MaxNotes
       /\ LET c == Call("insert", 0, FALSE, newTodo, todos)
          IN  /\ Send(c)
              /\ last' = Step("addTodo", c)
       /\ clean' = (clean /\ calls = <<>>)
       /\ UNCHANGED <<todos, newTodo, loading, remote, nextId, ignore, requests>>

\* Variant of ToggleTodo that flips the row before the response.
ToggleTodo_Optimistic(i) ==
    /\ ~ignore
    /\ ~loading
    /\ i \in DOMAIN todos
    /\ ~Busy
    /\ LET c == Call("update", todos[i].id, todos[i].completed, <<>>, todos)
       IN  /\ Send(c)
           /\ last' = Step("toggleTodo", c)
    /\ todos' = ToggleIn(todos, todos[i].id, todos[i].completed)
    /\ clean' = (clean /\ calls = <<>>)
    /\ UNCHANGED <<newTodo, loading, remote, nextId, ignore, requests>>

\* toggleTodo up to its await: the text of row i of the rendered list is
\* clicked; the list is rendered only when loading is false
ToggleTodo(i) ==
    /\ ~ignore
    /\ ~loading
    /\ i \in DOMAIN todos
    /\ ~Busy
    /\ LET c == Call("update", todos[i].id, todos[i].completed, <<>>, todos)
       IN  /\ Send(c)
           /\ last' = Step("toggleTodo", c)
    /\ clean' = (clean /\ calls = <<>>)
    /\ UNCHANGED <<todos, newTodo, loading, remote, nextId, ignore, requests>>

\* deleteTodo up to its await: the delete button of row i is clicked
DeleteTodo(i) ==
    /\ ~ignore
    /\ ~loading
    /\ i \in DOMAIN todos
    /\ ~Busy
    /\ LET c == Call("delete", todos[i].id, FALSE, <<>>, todos)
       IN  /\ Send(c)
           /\ last' = Step("deleteTodo", c)
    /\ clean' = (clean /\ calls = <<>>)
    /\ UNCHANGED <<todos, newTodo, loading, remote, nextId, ignore, requests>>

\* ------------------------------------------------------- the remote table

FreeTimes == (1..MaxTime) \ {r.created_at : r \in remote}

Newest(t) == \A r \in remote : r.created_at < t

\* The table after the request of call c, whose inserted row gets created_at t.
Applied(c, t) ==
    CASE c.op = "insert" -> remote \cup {Row(nextId, c.text, FALSE, t)}
      [] c.op = "update" ->
            {IF r.id = c.id THEN [r EXCEPT !.completed = ~c.completed] ELSE r : r \in remote}
      [] c.op = "delete" -> {r \in remote : r.id # c.id}
      [] OTHER -> remote

\* The body of the response to call c.
Response(c, t) ==
    CASE c.op = "select" -> ListOrder(remote)
      [] c.op = "insert" -> <<Row(nextId, c.text, FALSE, t)>>
      [] OTHER -> <<>>

Times(c) == IF c.op = "insert" THEN FreeTimes ELSE {0}

\* The store executes the request of call k and answers without error.
RemoteServe(k) ==
    /\ k \in DOMAIN calls
    /\ calls[k].phase = "sent"
    /\ \E t \in Times(calls[k]) :
          /\ remote' = Applied(calls[k], t)
          /\ calls' = [calls EXCEPT ![k].phase = "ok", ![k].data = Response(calls[k], t)]
          /\ clean' = (clean /\ (calls[k].op = "insert" => Newest(t)))
    /\ nextId' = IF calls[k].op = "insert" THEN nextId + 1 ELSE nextId
    /\ requests' = requests + 1
    /\ last' = Step("remote", NoCall)
    /\ UNCHANGED <<todos, newTodo, loading, ops, ignore>>

\* The request of call k fails before the store executes it.
RemoteReject(k) ==
    /\ k \in DOMAIN calls
    /\ calls[k].phase = "sent"
    /\ calls' = [calls EXCEPT ![k].phase = "err"]
    /\ clean' = (clean /\ calls[k].op # "select")
    /\ requests' = requests + 1
    /\ last' = Step("remote", NoCall)
    /\ UNCHANGED <<todos, newTodo, loading, remote, nextId, ops, ignore>>

\* The store executes the request of call k and the response is lost: the
\* client gets an error.
RemoteLost(k) ==
    /\ k \in DOMAIN calls
    /\ calls[k].phase = "sent"
    /\ calls[k].op # "select"
    /\ \E t \in Times(calls[k]) : remote' = Applied(calls[k], t)
    /\ nextId' = IF calls[k].op = "insert" THEN nextId + 1 ELSE nextId
    /\ calls' = [calls EXCEPT ![k].phase = "err"]
    /\ clean' = FALSE
    /\ requests' = requests + 1
    /\ last' = Step("remote", NoCall)
    /\ UNCHANGED <<todos, newTodo, loading, ops, ignore>>

\* ------------------------------------- completions (the code after an await)

Ok(c) == c.phase = "ok"

\* What a call still in flight records of the completion of call c.
Seen(c) == [op |-> c.op, id |-> c.id, completed |-> c.completed, alone |-> c.others = {}]

\* Variant of Rest in which a completed insert sends a new list request.
Rest_Refetch(k) ==
    LET c == calls[k]
        r == RemoveAt(calls, k)
        q == [j \in DOMAIN r |->
                IF Ok(c) THEN [r[j] EXCEPT !.others = @ \cup {Seen(c)}] ELSE r[j]]
    IN  IF c.op = "insert" THEN Append(q, Call("select", 0, FALSE, <<>>, <<>>)) ELSE q
\* Variant of Rest in which a failed request is sent again.
Rest_Retry(k) ==
    LET c == calls[k]
        r == RemoveAt(calls, k)
    IN  IF Ok(c)
        THEN [j \in DOMAIN r |-> [r[j] EXCEPT !.others = @ \cup {Seen(c)}]]
        ELSE [calls EXCEPT ![k].phase = "sent"]
\* The calls in flight once call k has completed.
Rest(k) ==
    LET c == calls[k]
        r == RemoveAt(calls, k)
    IN  [j \in DOMAIN r |->
            IF Ok(c) THEN [r[j] EXCEPT !.others = @ \cup {Seen(c)}] ELSE r[j]]

\* Variant of FetchTodosResult that keeps the rows already held.
FetchTodosResult_Merge(c, cur) == IF Ok(c) THEN cur \o c.data ELSE cur
\* Variant of FetchTodosResult that empties the list on failure.
FetchTodosResult_ClearOnError(c, cur) == IF Ok(c) THEN c.data ELSE <<>>
\* if (error) console.error(...) else setTodos(data)
FetchTodosResult(c, cur) == IF Ok(c) THEN c.data ELSE cur

\* if (error) console.error(...) else setTodos([data[0], ...todos])
AddTodoResult(c, cur) == IF Ok(c) THEN Prepend(c.data[1], c.snap) ELSE cur

\* Variant of AddTodoDraft that clears the input only if it still holds the
\* submitted text.
AddTodoDraft_IfSame(c, cur) == IF Ok(c) /\ cur = c.text THEN <<>> ELSE cur
\* Variant of AddTodoDraft that clears the input on failure too.
AddTodoDraft_Always(c, cur) == <<>>
\* ... else setNewTodo('')
AddTodoDraft(c, cur) == IF Ok(c) THEN <<>> ELSE cur

\* Variant of ToggleTodoResult that flips whatever flag the row has now.
ToggleTodoResult_Relative(c, cur) ==
    IF Ok(c)
    THEN [i \in DOMAIN cur |->
            IF cur[i].id = c.id THEN [cur[i] EXCEPT !.completed = ~@] ELSE cur[i]]
    ELSE cur
\* Variant of ToggleTodoResult that patches the list on failure too.
ToggleTodoResult_Optimistic(c, cur) == ToggleIn(c.snap, c.id, c.completed)
\* if (error) console.error(...) else setTodos(todos.map(...))
ToggleTodoResult(c, cur) == IF Ok(c) THEN ToggleIn(c.snap, c.id, c.completed) ELSE cur

\* Variant of DeleteTodoResult that patches the list on failure too.
DeleteTodoResult_Optimistic(c, cur) == Without(c.snap, c.id)
\* if (error) console.error(...) else setTodos(todos.filter(...))
DeleteTodoResult(c, cur) == IF Ok(c) THEN Without(c.snap, c.id) ELSE cur

Answered(k, op) ==
    /\ k \in DOMAIN calls
    /\ calls[k].op = op
    /\ calls[k].phase # "sent"

\* fetchTodos after its await
FetchTodosDone(k) ==
    /\ Answered(k, "select")
    /\ todos' = FetchTodosResult(calls[k], todos)
    /\ loading' = FALSE
    /\ calls' = Rest(k)
    /\ last' = Step("fetchTodosDone", calls[k])
    /\ UNCHANGED <<newTodo, remote, nextId, clean, ops, ignore, requests>>

\* Variant of GuardedTodos that applies the response only after teardown.
GuardedTodos_Inverted(c, cur) == IF ignore THEN FetchTodosResult(c, cur) ELSE cur
\* part_001: if (!ignore) { if (error) ... else setTodos(data) }
GuardedTodos(c, cur) == IF ignore THEN cur ELSE FetchTodosResult(c, cur)

\* Variant of GuardedLoading that clears the flag only after teardown.
GuardedLoading_Inverted(cur) == IF ignore THEN FALSE ELSE cur
\* part_001: if (!ignore) { ...; setLoading(false) }
GuardedLoading(cur) == IF ignore THEN cur ELSE FALSE

\* fetchTodos of part_001 after its await
FetchTodosDoneGuarded(k) ==
    /\ Answered(k, "select")
    /\ todos' = GuardedTodos(calls[k], todos)
    /\ loading' = GuardedLoading(loading)
    /\ calls' = Rest(k)
    /\ last' = Step("fetchTodosDoneGuarded", calls[k])
    /\ UNCHANGED <<newTodo, remote, nextId, clean, ops, ignore, requests>>

\* The component is unmounted; part_001's cleanup: return () => { ignore = true; }
Unmount ==
    /\ ~ignore
    /\ ignore' = TRUE
    /\ last' = Step("unmount", NoCall)
    /\ UNCHANGED <<todos, newTodo, loading, calls, remote, nextId, clean, ops, requests>>

\* addTodo after its await
AddTodoDone(k) ==
    /\ Answered(k, "insert")
    /\ todos' = AddTodoResult(calls[k], todos)
    /\ newTodo' = AddTodoDraft(calls[k], newTodo)
    /\ calls' = Rest(k)
    /\ last' = Step("addTodoDone", calls[k])
    /\ UNCHANGED <<loading, remote, nextId, clean, ops, ignore, requests>>

\* toggleTodo after its await
ToggleTodoDone(k) ==
    /\ Answered(k, "update")
    /\ todos' = ToggleTodoResult(calls[k], todos)
    /\ calls' = Rest(k)
    /\ last' = Step("toggleTodoDone", calls[k])
    /\ UNCHANGED <<newTodo, loading, remote, nextId, clean, ops, ignore, requests>>

\* deleteTodo after its await
DeleteTodoDone(k) ==
    /\ Answered(k, "delete")
    /\ todos' = DeleteTodoResult(calls[k], todos)
    /\ calls' = Rest(k)
    /\ last' = Step("deleteTodoDone", calls[k])
    /\ UNCHANGED <<newTodo, loading, remote, nextId, clean, ops, ignore, requests>>

\* ----------------------------------------------------- what is rendered

\* {loading ? <p className="loading"> : <ul className="todo-list">}
ShowLoading == loading

\* Variant of ShowEmptyMessage that forgets the loading flag.
ShowEmptyMessage_NoLoading == Len(todos) = 0
\* {todos.length === 0 && !loading && <p className="empty-message">}
ShowEmptyMessage == Len(todos) = 0 /\ ~loading

\* --------------------------------------------------------- specification

Next ==
    \/ \E v \in Drafts : SetNewTodo(v)
    \/ AddTodo
    \/ \E i \in DOMAIN todos : ToggleTodo(i)
    \/ \E i \in DOMAIN todos : DeleteTodo(i)
    \/ \E k \in 1..MaxCalls : RemoteServe(k)
    \/ \E k \in 1..MaxCalls : RemoteReject(k)
    \/ \E k \in 1..MaxCalls : RemoteLost(k)
    \/ \E k \in 1..MaxCalls : FetchTodosDone(k)
    \/ \E k \in 1..MaxCalls : FetchTodosDoneGuarded(k)
    \/ Unmount
    \/ \E k \in 1..MaxCalls : AddTodoDone(k)
    \/ \E k \in 1..MaxCalls : ToggleTodoDone(k)
    \/ \E k \in 1..MaxCalls : DeleteTodoDone(k)

Spec == Init /\ [][Next]_vars

\* The continuation of an await runs once its request is answered: the event
\* loop does not leave a settled promise's continuation waiting for ever.
\* Nothing makes the store answer.
FairSpec ==
    Spec /\ WF_vars(\E k \in 1..MaxCalls : FetchTodosDone(k) \/ FetchTodosDoneGuarded(k))

\* The runs in which the user only types and submits, the input taking texts
\* of two characters: blanks only, or a letter with a blank before or after it.
TypedDrafts == {<<>>, <<" ", " ">>, <<" ", "a">>, <<"a", " ">>}

NextTyping ==
    \/ \E v \in TypedDrafts : SetNewTodo(v)
    \/ AddTodo
    \/ \E k \in 1..MaxCalls : RemoteServe(k)
    \/ \E k \in 1..MaxCalls : RemoteReject(k)
    \/ \E k \in 1..MaxCalls : RemoteLost(k)
    \/ \E k \in 1..MaxCalls : FetchTodosDone(k)
    \/ \E k \in 1..MaxCalls : AddTodoDone(k)

SpecTyping == Init /\ [][NextTyping]_vars

\* ---------------------------------------------------------------- claims

\* The step just taken applied the successful / failed response of `act`.
Completed(act) == last.act = act /\ last.call.phase = "ok"
Failed(act)    == last.act = act /\ last.call.phase = "err"

DoneActs == {"fetchTodosDone", "addTodoDone", "toggleTodoDone", "deleteTodoDone"}

\* No other call's successful response was applied while the call just
\* completed was in flight.
Undisturbed == last.call.others = {}

OnlyWhitespace(s) == \A i \in DOMAIN s : s[i] \in Whitespace

\* C1 as stated: right after every successful completion the local list is
\* what a fresh list request would return, in every interleaving.
C1_ReconciledAlways ==
    (last.act \in DoneActs /\ last.call.phase = "ok") => todos = ListOrder(remote)

\* C1 amended: right after a successful completion the local list is what a
\* fresh list request would return, provided that so far no operation was
\* triggered while another was in flight, the list request did not fail, no
\* request the store executed was reported as failed, and every inserted row
\* got a created_at later than all rows of the table.
C1_ReconciledWhenSerial ==
    (last.act \in DoneActs /\ last.call.phase = "ok" /\ clean) => todos = ListOrder(remote)

C1_Witness ==
    /\ Completed("deleteTodoDone")
    /\ clean
    /\ ops >= 2
    /\ todos # <<>>
    /\ todos = ListOrder(remote)

\* C2: a toggle of row a and a delete of row b # a, both in flight at once on
\* the same list L and both successful, leave L with a flipped and b removed,
\* whichever response is applied last.
C2_DifferentRowsCommute ==
    \A o \in last.call.others :
        ( /\ last.act \in {"toggleTodoDone", "deleteTodoDone"}
          /\ last.call.phase = "ok"
          /\ last.call.others = {o}
          /\ o.alone
          /\ {o.op, last.call.op} = {"update", "delete"}
          /\ o.id # last.call.id )
        => LET t == IF o.op = "update" THEN o ELSE last.call
               d == IF o.op = "delete" THEN o ELSE last.call
           IN  todos = Without(ToggleIn(last.call.snap, t.id, t.completed), d.id)

\* C3 (P1): right after the list request succeeds with rows R, todos is R in
\* the order returned and loading is false.
C3_LoadVerbatim ==
    Completed("fetchTodosDone") => (todos = last.call.data /\ loading = FALSE)

C3_Witness ==
    /\ Completed("fetchTodosDone")
    /\ Len(todos) = 2
    /\ last.todos # <<>>

\* C4 (P2): addTodo with an empty or all-whitespace draft sends no request
\* and leaves todos, newTodo and loading as they were.
C4_BlankDraftNoOp ==
    (last.act = "addTodo" /\ OnlyWhitespace(last.newTodo))
    => /\ last.call = NoCall
       /\ todos = last.todos
       /\ newTodo = last.newTodo
       /\ loading = last.loading

C4_Witness ==
    /\ last.act = "addTodo"
    /\ last.newTodo = <<" ">>
    /\ last.call = NoCall
    /\ calls # <<>>

\* C5 (P3): an insert triggered on list L and completed with row C, no other
\* response applied in between, gives C followed by L, whatever C's created_at.
C5_PrependNotResort ==
    (Completed("addTodoDone") /\ Undisturbed)
    => /\ last.call.snap = last.todos
       /\ todos = <<last.call.data[1]>> \o last.todos

C5_Witness ==
    /\ Completed("addTodoDone")
    /\ Undisturbed
    /\ Len(last.todos) = 2
    /\ todos[1].created_at < todos[2].created_at
    /\ todos[1] = last.call.data[1]

\* C6 (P4): a toggle triggered on list L for a row with flag c and completed
\* successfully, no other response applied in between, gives L with that row's
\* completed = ~c and everything else as it was.
C6_ToggleOneRow ==
    (Completed("toggleTodoDone") /\ Undisturbed)
    => /\ last.call.snap = last.todos
       /\ Len(todos) = Len(last.todos)
       /\ \A i \in DOMAIN last.todos :
             IF last.todos[i].id = last.call.id
             THEN todos[i] = [last.todos[i] EXCEPT !.completed = ~last.call.completed]
             ELSE todos[i] = last.todos[i]

C6_Witness ==
    /\ Completed("toggleTodoDone")
    /\ Undisturbed
    /\ Len(todos) = 2
    /\ \E i \in DOMAIN last.todos :
          /\ last.todos[i].id = last.call.id
          /\ last.todos[i].completed = last.call.completed
          /\ todos[i].completed # last.todos[i].completed

\* C7 (P5): a delete triggered on list L and completed successfully, no other
\* response applied in between, gives L without the rows of that id, the
\* others in their order.
C7_DeleteById ==
    (Completed("deleteTodoDone") /\ Undisturbed)
    => /\ last.call.snap = last.todos
       /\ todos = SelectSeq(last.todos, LAMBDA t : t.id # last.call.id)

C7_Witness ==
    /\ Completed("deleteTodoDone")
    /\ Undisturbed
    /\ Len(last.todos) = 2
    /\ last.todos[2].id = last.call.id
    /\ todos = <<last.todos[1]>>

\* C8 (P6): applying the failed response of a toggle leaves todos, newTodo and
\* loading as they were just before.
C8_ToggleFailureIsolated ==
    Failed("toggleTodoDone")
    => (todos = last.todos /\ newTodo = last.newTodo /\ loading = last.loading)

C8_Witness ==
    /\ Failed("toggleTodoDone")
    /\ last.call.id \in Ids(todos)

\* C9: applying the failed response of an insert changes neither todos nor
\* newTodo: the draft is still there and no row was prepended.
C9_InsertFailureKeepsDraft ==
    Failed("addTodoDone") => (todos = last.todos /\ newTodo = last.newTodo)

C9_Witness ==
    /\ Failed("addTodoDone")
    /\ newTodo = last.call.text
    /\ ~OnlyWhitespace(newTodo)

\* C10: applying the failed response of a delete leaves the row of that id in
\* todos at the position it had just before, and every other row as it was.
C10_DeleteFailureKeepsRow ==
    Failed("deleteTodoDone")
    => /\ Len(todos) = Len(last.todos)
       /\ \A i \in DOMAIN last.todos : todos[i] = last.todos[i]

C10_Witness ==
    /\ Failed("deleteTodoDone")
    /\ \E i \in DOMAIN todos : todos[i].id = last.call.id

\* C11 as stated: right after the list request fails, loading is false and
\* todos is empty, in every interleaving.
C11_FetchFailureLeavesEmpty ==
    Failed("fetchTodosDone") => (loading = FALSE /\ todos = <<>>)

\* C11 amended: right after the list request fails, loading is false and
\* todos is what it was just before; it is empty unless the successful
\* response of an insert was applied while the list request was outstanding.
C11_FetchFailureLeavesList ==
    Failed("fetchTodosDone")
    => /\ loading = FALSE
       /\ todos = last.todos
       /\ (todos = <<>> \/ \E o \in last.call.others : o.op = "insert")

C11_Witness ==
    /\ Failed("fetchTodosDone")
    /\ loading = FALSE
    /\ Len(todos) = 1
    /\ last.loading = TRUE

\* C12: once the component is torn down with the list request outstanding,
\* the completion of that request changes neither todos nor loading.
C12_TeardownGuard ==
    (last.act \in {"fetchTodosDone", "fetchTodosDoneGuarded"} /\ ignore)
    => (todos = last.todos /\ loading = last.loading)

\* C13: loading is true when the component is mounted, and a step taken with
\* loading false leaves it false.
C13_LoadingOneWay ==
    /\ last.act = "mount" => loading = TRUE
    /\ last.loading = FALSE => loading = FALSE

C13_Witness ==
    /\ last.act = "addTodoDone"
    /\ last.loading = FALSE
    /\ loading = FALSE

\* C14: the empty message is rendered exactly when todos is empty and loading
\* is false, so never together with the loading indicator.
C14_EmptyMessage ==
    /\ ShowEmptyMessage <=> (todos = <<>> /\ loading = FALSE)
    /\ ~(ShowEmptyMessage /\ ShowLoading)
    /\ (loading = TRUE /\ todos = <<>>) => ~ShowEmptyMessage

C14_Witness ==
    /\ ShowEmptyMessage
    /\ Completed("deleteTodoDone")
    /\ last.todos # <<>>

\* C15: the scenario, step by step.  A list request answered with no rows
\* gives an empty list, loading false and the empty message; an insert
\* completed on the empty list gives one row with the submitted, non-blank
\* text and completed false; a toggle completed on that row makes completed
\* true; a delete completed on the one-row list gives the empty list and the
\* empty message again.
C15_Scenario ==
    /\ (Completed("fetchTodosDone") /\ last.call.data = <<>>)
       => (todos = <<>> /\ loading = FALSE /\ ShowEmptyMessage)
    /\ (Completed("addTodoDone") /\ Undisturbed /\ last.todos = <<>>)
       => /\ Len(todos) = 1
          /\ todos[1].text = last.call.text
          /\ ~OnlyWhitespace(todos[1].text)
          /\ todos[1].completed = FALSE
    /\ (Completed("toggleTodoDone") /\ Undisturbed /\ Len(last.todos) = 1
            /\ last.todos[1].completed = FALSE)
       => /\ Len(todos) = 1
          /\ todos[1].id = last.todos[1].id
          /\ todos[1].completed = TRUE
    /\ (Completed("deleteTodoDone") /\ Undisturbed /\ Len(last.todos) = 1)
       => (todos = <<>> /\ ShowEmptyMessage)

\* The end of the scenario: the row just deleted has id 1 and is no row of an
\* initial table, so the table was empty and the row was inserted; it was
\* completed, so it was toggled; three requests were sent, one after another.
C15_Witness ==
    /\ Completed("deleteTodoDone")
    /\ clean
    /\ ops = 3
    /\ Len(last.todos) = 1
    /\ last.todos[1].id = 1
    /\ last.todos[1].completed = TRUE
    /\ \A T \in InitialTables : \A r \in T : r.created_at # last.todos[1].created_at
    /\ remote = {}
    /\ todos = <<>>
    /\ ShowEmptyMessage

\* C16: a successful toggle response applied when todos holds no row of that
\* id leaves todos as it was.
C16_ToggleMissingRowNoOp ==
    (Completed("toggleTodoDone") /\ last.call.id \notin Ids(last.todos))
    => todos = last.todos

\* The list after the step is the list before it with one row put in front.
OneAdded ==
    /\ Len(todos) = Len(last.todos) + 1
    /\ SubSeq(todos, 2, Len(todos)) = last.todos

\* ... with exactly one row replaced.
OneReplaced ==
    /\ Len(todos) = Len(last.todos)
    /\ Cardinality({i \in DOMAIN todos : todos[i] # last.todos[i]}) = 1

\* ... with exactly one row taken out.
OneRemoved == \E i \in DOMAIN last.todos : todos = RemoveAt(last.todos, i)

OneElementChanged ==
    /\ Completed("addTodoDone") => OneAdded
    /\ Completed("toggleTodoDone") => OneReplaced
    /\ Completed("deleteTodoDone") => OneRemoved

\* C17 as stated: after the initial load every successful completion changes
\* the list held just before it by exactly one row, in every interleaving.
C17_OneElementAlways == last.loading = FALSE => OneElementChanged

\* C17 amended: after the initial load a successful completion changes the
\* list held just before it by exactly one row, provided no other successful
\* response was applied while its request was in flight.
C17_OneElementWhenUndisturbed ==
    (last.loading = FALSE /\ Undisturbed) => OneElementChanged

C17_Witness ==
    /\ Completed("deleteTodoDone")
    /\ Undisturbed
    /\ last.loading = FALSE
    /\ calls # <<>>
    /\ Len(last.todos) = 2
    /\ Len(todos) = 1

\* C18: when the successful response of a toggle is applied after that of a
\* toggle of the same row with the opposite target, both having been in
\* flight together, the row's local flag is the target of the one applied
\* last, whatever the order in which the table executed them.
C18_LastToggleWins ==
    (Completed("toggleTodoDone")
        /\ \E o \in last.call.others :
              o.op = "update" /\ o.id = last.call.id /\ o.completed # last.call.completed)
    => \E i \in DOMAIN todos :
          todos[i].id = last.call.id /\ todos[i].completed = ~last.call.completed

\* ... and with nothing left in flight the table holds the other value.
C18_Witness ==
    /\ Completed("toggleTodoDone")
    /\ \E o \in last.call.others :
          o.op = "update" /\ o.id = last.call.id /\ o.completed # last.call.completed
    /\ calls = <<>>
    /\ \E i \in DOMAIN todos : \E r \in remote :
          /\ todos[i].id = last.call.id
          /\ r.id = last.call.id
          /\ todos[i].completed = ~last.call.completed
          /\ r.completed # todos[i].completed

\* C19: the step that sends the request of addTodo, toggleTodo or deleteTodo
\* changes neither todos nor newTodo, and todos changes only in a step that
\* applies a successful response.
C19_NoOptimisticUpdate ==
    /\ last.act \in {"addTodo", "toggleTodo", "deleteTodo"}
       => (todos = last.todos /\ newTodo = last.newTodo)
    /\ todos # last.todos
       => (last.act \in DoneActs \cup {"fetchTodosDoneGuarded"} /\ last.call.phase = "ok")

C19_Witness ==
    /\ last.act = "toggleTodo"
    /\ last.call \in {calls[k] : k \in DOMAIN calls}
    /\ \E i \in DOMAIN todos :
          todos[i].id = last.call.id /\ todos[i].completed = last.call.completed

\* C20: right after the successful response of an insert is applied newTodo
\* is empty, whatever was in the input just before.
C20_DraftCleared == Completed("addTodoDone") => newTodo = <<>>

C20_Witness ==
    /\ Completed("addTodoDone")
    /\ last.newTodo # <<>>
    /\ last.newTodo # last.call.text
    /\ newTodo = <<>>

\* C21: every insert request carries the text of the input as it was when the
\* form was submitted, untrimmed, and completed = false; that text has a
\* character that is not whitespace; and, the rows of the table the page was
\* opened on having such texts, so has every row of todos in every state.
C21_InsertText ==
    /\ \A k \in DOMAIN calls :
          calls[k].op = "insert"
          => (~OnlyWhitespace(calls[k].text) /\ calls[k].completed = FALSE)
    /\ (last.act = "addTodo" /\ last.call # NoCall)
       => (last.call.op = "insert" /\ last.call.text = last.newTodo)
    /\ Completed("addTodoDone")
       => (todos[1].text = last.call.text /\ todos[1].completed = FALSE)
    /\ \A i \in DOMAIN todos : ~OnlyWhitespace(todos[i].text)

\* A text with a leading blank was submitted and is now the text of a row.
C21_Witness ==
    /\ Completed("addTodoDone")
    /\ last.call.text = <<" ", "a">>
    /\ todos[1].text = <<" ", "a">>
    /\ todos[1].completed = FALSE

\* The list request is in flight or answered and not yet applied / answered.
SelectOutstanding == \E k \in DOMAIN calls : calls[k].op = "select"
SelectAnswered == \E k \in DOMAIN calls : Answered(k, "select")

\* C22: loading is true in every state in which the response of the list
\* request has not been applied, so for ever if the request is never
\* answered; and once the request is answered, with success or failure,
\* loading eventually is false unless the component is torn down.
C22_LoadingProgress ==
    /\ [](SelectOutstanding => loading = TRUE)
    /\ [](SelectAnswered => <>(loading = FALSE \/ ignore))

\* The failed response of the list request has just been applied, the
\* component still mounted, after an insert was sent during the wait.
C22_Witness ==
    /\ Failed("fetchTodosDone")
    /\ ~ignore
    /\ last.loading = TRUE
    /\ loading = FALSE
    /\ ops >= 1

ListRequests == {k \in DOMAIN calls : calls[k].op = "select"}

\* C23: the list request is sent once, when the component is mounted: there
\* is never more than one, no step of a handler or of a continuation sends one
\* when none is in flight, and so the step that applies its response is taken
\* with loading still true, never on a list already loaded.
C23_ListRequestOnce ==
    /\ [](Cardinality(ListRequests) <= 1)
    /\ [][(\E k \in DOMAIN calls' : calls'[k].op = "select")
            => (\E k \in DOMAIN calls : calls[k].op = "select")]_vars
    /\ [](last.act \in {"fetchTodosDone", "fetchTodosDoneGuarded"} => last.loading = TRUE)

\* After the load three requests were sent and answered; the last one, an
\* insert, has just been applied and no list request is in flight.
C23_Witness ==
    /\ Completed("addTodoDone")
    /\ last.loading = FALSE
    /\ ops = 3
    /\ calls = <<>>
    /\ ListRequests = {}

\* The requests sent and not yet answered.
InFlight == Cardinality({k \in DOMAIN calls : calls[k].phase = "sent"})

\* C24: the step of addTodo (draft not blank), toggleTodo or deleteTodo puts
\* one request in flight, and the requests that reached the remote side plus
\* those in flight are as many as those steps plus the list request: nothing
\* is sent twice, whether it failed or not.
C24_PassThrough ==
    /\ requests + InFlight = ops + 1
    /\ (last.act \in {"toggleTodo", "deleteTodo"}
            \/ (last.act = "addTodo" /\ ~OnlyWhitespace(last.newTodo)))
       => (calls # <<>> /\ calls[Len(calls)] = last.call /\ last.call.phase = "sent")

\* Three requests were sent after the list request, the last of them failed
\* and its failure has been handled: four requests in all, none in flight.
C24_Witness ==
    /\ Failed("toggleTodoDone")
    /\ calls = <<>>
    /\ ops = 3
    /\ requests = 4

\* C25: when the successful response of a delete was applied while a toggle
\* or a delete of another row was in flight, the deleted row is not in todos
\* right after that other call's successful response is applied.
C25_NoResurrection ==
    \A o \in last.call.others :
        ( /\ last.act \in {"toggleTodoDone", "deleteTodoDone"}
          /\ last.call.phase = "ok"
          /\ o.op = "delete"
          /\ o.id # last.call.id )
        => o.id \notin Ids(todos)

\* C26: in a run in which the list request succeeded before anything was sent,
\* every later request was sent with nothing in flight and, if the table
\* executed it, was reported as successful, and every inserted row got a
\* created_at later than all others, todos is the table ordered by created_at
\* descending whenever the list is loaded and nothing is in flight: after
\* every completion, and until the next request is sent.
C26_SerialReconciliation ==
    (clean /\ calls = <<>> /\ loading = FALSE) => todos = ListOrder(remote)

\* The end of a serial run on a table of two rows: a row was inserted, one of
\* the first two deleted and a toggle has just completed.
C26_Witness ==
    /\ Completed("toggleTodoDone")
    /\ clean
    /\ calls = <<>>
    /\ ops = 3
    /\ Len(todos) = 2
    /\ todos[1].id = 3
    /\ todos = ListOrder(remote)

\* C27: no two rows of todos have the same id, in every state.
C27_UniqueIds == Cardinality(Ids(todos)) = Len(todos)

\* The row of an insert sent during loading was already in the list, brought
\* by the list request, when the insert's own response was applied.
C27_Witness ==
    /\ Completed("addTodoDone")
    /\ last.call.data[1].id \in Ids(last.todos)
    /\ last.call.data[1].id \in Ids(todos)
    /\ Cardinality(Ids(todos)) = Len(todos)

\* The toggle just completed was in flight together with toggle o of the same
\* row, sent with the same flag, and no other response was applied meanwhile.
DoubleClick(o) ==
    /\ Completed("toggleTodoDone")
    /\ last.call.others = {o}
    /\ o.alone
    /\ o.op = "update"
    /\ o.id = last.call.id
    /\ o.completed = last.call.completed

\* C28: two toggles of one row sent with the same flag c and in flight
\* together, both successful: once the second response is applied the row is
\* in todos with completed = ~c, one flip and not two; and if these two were
\* the only requests sent since the load, the row of the table, if it is
\* there, has completed = ~c as well.
C28_DoubleClickOneFlip ==
    \A o \in last.call.others :
        DoubleClick(o)
        => /\ \E i \in DOMAIN todos : todos[i].id = last.call.id
           /\ \A i \in DOMAIN todos :
                 todos[i].id = last.call.id => todos[i].completed = ~last.call.completed
           /\ ops = 2
              => \A r \in remote :
                    r.id = last.call.id => r.completed = ~last.call.completed

\* The row was not completed; after the double click it is, in the list and
\* in the table.
C28_Witness ==
    /\ \E o \in last.call.others : DoubleClick(o)
    /\ last.call.completed = FALSE
    /\ ops = 2
    /\ calls = <<>>
    /\ \E i \in DOMAIN todos : todos[i].id = last.call.id /\ todos[i].completed = TRUE
    /\ \E r \in remote : r.id = last.call.id /\ r.completed = TRUE

\* C29: the two revisions differ in the continuation of the list request
\* only.  While the component is mounted, in every state in which the answer
\* to the list request waits to be applied, the continuation of part_001 and
\* that of App.jsx give the same todos and the same loading, and the step
\* either of them takes leaves exactly that state; so, fed the same triggers
\* and responses, the two hold the same todos, newTodo and loading throughout.
C29_SameWithoutTeardown ==
    ~ignore
    => /\ \A k \in DOMAIN calls :
             Answered(k, "select")
             => /\ GuardedTodos(calls[k], todos) = FetchTodosResult(calls[k], todos)
                /\ GuardedLoading(loading) = FALSE
       /\ last.act \in {"fetchTodosDone", "fetchTodosDoneGuarded"}
          => /\ todos = FetchTodosResult(last.call, last.todos)
             /\ loading = FALSE
             /\ newTodo = last.newTodo

\* The guarded continuation has just applied a list of two rows, the
\* component mounted, over a list an insert had already changed.
C29_Witness ==
    /\ last.act = "fetchTodosDoneGuarded"
    /\ ~ignore
    /\ last.call.phase = "ok"
    /\ last.todos # <<>>
    /\ Len(todos) = 2
    /\ loading = FALSE

====
